---- MODULE Spec2Model ----
(***************************************************************************)
(* A model of the llm-bench evaluation engine: the Exercise state machine  *)
(* (benchmarker/exercise.py), the three grading harnesses, the response    *)
(* sanitizer and the per-exercise retry loop of BenchmarkRunner            *)
(* (benchmarker/runner.py).                                                *)
(*                                                                         *)
(* Spec runs one exercise through run_exercise and reset; MainSpec runs    *)
(* the command line program (run_benchmark.py) over a suite; SanitizerSpec *)
(* and HarnessSpec apply clean_code_response and the named-function        *)
(* harness to every input of a bounded set.                                *)
(*                                                                         *)
(* Text is a sequence of tokens (strings); a multi-line text is the        *)
(* sequence of its lines.  Python values are records with a type tag.      *)
(***************************************************************************)
EXTENDS Integers, Sequences, FiniteSets, TLC

\* Largest max_attempts an exercise is constructed with.
MaxAttemptsBound == 2

(***************************************************************************)
(* Python values                                                           *)
(***************************************************************************)
PyNone == [t |-> "none", i |-> 0, s |-> <<>>, l |-> <<>>]

PyInt(n) == [t |-> "int", i |-> n, s |-> <<>>, l |-> <<>>]

PyBool(b) == [t |-> "bool", i |-> IF b THEN 1 ELSE 0, s |-> <<>>, l |-> <<>>]

PyStr(toks) == [t |-> "str", i |-> 0, s |-> toks, l |-> <<>>]

PyList(vals) == [t |-> "list", i |-> 0, s |-> <<>>, l |-> vals]

PyTuple(vals) == [t |-> "tuple", i |-> 0, s |-> <<>>, l |-> vals]

\* A value whose conversion to text raises: an int beyond the interpreter's
\* int-to-str digit limit, or an object whose __str__ raises.
PyUnprintable == [t |-> "obj", i |-> 0, s |-> <<>>, l |-> <<>>]

\* An unprintable value of a class whose __eq__ returns True for everything.
PyAlwaysEqual == [t |-> "obj", i |-> 0, s |-> <<"__eq__">>, l |-> <<>>]

IsNumber(v) == v.t \in {"int", "bool"}

\* Python's == on the modelled values: numbers (bool is an int) compare by
\* value, lists elementwise, everything else by type and content; an
\* overriding __eq__ decides on either side.
RECURSIVE PyEq(_, _)
PyEq(a, b) ==
    IF a = PyAlwaysEqual \/ b = PyAlwaysEqual THEN TRUE
    ELSE IF IsNumber(a) /\ IsNumber(b) THEN a.i = b.i
    ELSE IF a.t = b.t /\ a.t \in {"list", "tuple"}
         THEN /\ Len(a.l) = Len(b.l)
              /\ \A k \in 1..Len(a.l) : PyEq(a.l[k], b.l[k])
         ELSE a.t = b.t /\ a.s = b.s /\ a.t # "obj"

\* Whether str(v)/format(v) returns (TRUE) or raises (FALSE).
RECURSIVE Printable(_)
Printable(v) ==
    IF v.t = "obj" THEN FALSE
    ELSE IF v.t \in {"list", "tuple"} THEN \A k \in 1..Len(v.l) : Printable(v.l[k])
    ELSE TRUE

Digit(d) == <<"0", "1", "2", "3", "4", "5", "6", "7", "8", "9">>[d + 1]

RECURSIVE Digits(_)
Digits(n) == IF n < 10 THEN <<Digit(n)>> ELSE Digits(n \div 10) \o <<Digit(n % 10)>>

\* str(n) for an int: the decimal digits, with a leading minus sign.
IntStr(n) == IF n < 0 THEN <<"-">> \o Digits(0 - n) ELSE Digits(n)

\* str(v) / f"{v}" of a printable value, as tokens.
RECURSIVE PyFormat(_)
RECURSIVE FormatItems(_, _)
FormatItems(vals, k) ==
    IF k > Len(vals) THEN <<>>
    ELSE (IF k > 1 THEN <<", ">> ELSE <<>>) \o PyFormat(vals[k]) \o FormatItems(vals, k + 1)

PyFormat(v) ==
    CASE v.t = "none" -> <<"None">>
      [] v.t = "int"  -> IntStr(v.i)
      [] v.t = "bool" -> IF v.i = 1 THEN <<"True">> ELSE <<"False">>
      [] v.t = "str"  -> v.s
      [] v.t = "list" -> <<"[">> \o FormatItems(v.l, 1) \o <<"]">>
      [] v.t = "tuple" -> <<"(">> \o FormatItems(v.l, 1) \o <<")">>
      [] OTHER        -> <<>>

\* sub occurs in text as a contiguous run of tokens (Python's sub in text).
Contains(text, sub) ==
    \E k \in 0..(Len(text) - Len(sub)) :
        \A j \in 1..Len(sub) : text[k + j] = sub[j]

(***************************************************************************)
(* Exceptions and call outcomes                                            *)
(***************************************************************************)
\* The outcome of a call: a returned value, or a raised exception with its
\* str() message.
Ok(v) == [exc |-> "none", msg |-> <<>>, val |-> v]

Raise(kind, msg) == [exc |-> kind, msg |-> msg, val |-> PyNone]

\* Exception kinds that derive from BaseException but not from Exception:
\* except Exception does not catch them, a bare except: does.
BaseOnly == {"SystemExit", "KeyboardInterrupt"}

IsException(kind) == kind # "none" /\ kind \notin BaseOnly

(***************************************************************************)
(* ExerciseResult, chat messages and the Exercise operations               *)
(***************************************************************************)
PASSED == "passed"
FAILED == "failed"
ERROR == "error"

ExerciseResult(status, expected, actual, error_message) ==
    [status |-> status, expected_output |-> expected, actual_output |-> actual,
     error_message |-> error_message, code_generated |-> PyNone]

Message(role, content) == [role |-> role, content |-> content]

SystemPrompt == "You are an expert Python programmer. ... Only the code in the last message you send will be executed."

\* Exercise.get_initial_messages: the system message and the user message
\* carrying the problem description.
get_initial_messages(description) ==
    << Message("system", <<SystemPrompt>>),
       Message("user", <<"Solve this coding problem:", "", description, "",
                         "Provide only the Python code that solves this problem.">>) >>

\* Truthiness of an Optional[str]: None and "" are both falsy.
Truthy(v) == v.t = "str" /\ v.s # <<>>

FeedbackHead == "Your previous solution failed. Here's what went wrong:"

FeedbackTail == "Please analyze the error and provide a corrected version. Remember to output only the Python code without any formatting or explanations."

\* An error_info that shows the two values whenever both are present and
\* the error message only otherwise.
error_info_ValuesFirst(previous_result) ==
    IF previous_result.actual_output.t # "none" /\ previous_result.expected_output.t # "none"
    THEN IF Printable(previous_result.expected_output) /\ Printable(previous_result.actual_output)
         THEN Ok(<<"Expected: ">> \o PyFormat(previous_result.expected_output)
                 \o <<", but got: ">> \o PyFormat(previous_result.actual_output))
         ELSE Raise("ValueError", <<"Exceeds the limit for integer string conversion">>)
    ELSE IF Truthy(previous_result.error_message)
    THEN Ok(<<"Error: ">> \o previous_result.error_message.s)
    ELSE Ok(<<>>)

\* The error_info line of get_retry_messages, or the exception raised while
\* formatting it.
error_info(previous_result) ==
    IF Truthy(previous_result.error_message)
    THEN Ok(<<"Error: ">> \o previous_result.error_message.s)
    ELSE IF previous_result.actual_output.t # "none"
            /\ previous_result.expected_output.t # "none"
         THEN IF Printable(previous_result.expected_output)
                 /\ Printable(previous_result.actual_output)
              THEN Ok(<<"Expected: ">> \o PyFormat(previous_result.expected_output)
                      \o <<", but got: ">> \o PyFormat(previous_result.actual_output))
              ELSE Raise("ValueError", <<"Exceeds the limit for integer string conversion">>)
         ELSE Ok(<<>>)

feedback_message(info) == Message("user", <<FeedbackHead>> \o info \o <<"", FeedbackTail>>)

\* A get_retry_messages that sends the feedback message alone.
get_retry_messages_FeedbackOnly(history, previous_result) ==
    IF error_info(previous_result).exc # "none" THEN error_info(previous_result)
    ELSE Ok(<<feedback_message(error_info(previous_result).val)>>)

\* Exercise.get_retry_messages: a copy of the transcript plus one feedback
\* message; the stored transcript is not touched.
get_retry_messages(history, previous_result) ==
    LET info == error_info(previous_result)
    IN IF info.exc # "none" THEN info
       ELSE Ok(Append(history, feedback_message(info.val)))

\* A get_retry_messages that appends to the stored transcript itself.
get_retry_messages_chat_history_Aliased(history, previous_result) ==
    IF error_info(previous_result).exc # "none" THEN history
    ELSE Append(history, feedback_message(error_info(previous_result).val))

\* self.chat_history after get_retry_messages: the feedback message is
\* appended to the list chat_history.copy() made, never to the transcript.
get_retry_messages_chat_history(history, previous_result) == history

\* Exercise.get_current_messages.
get_current_messages(ex) ==
    IF ex.attempts = 0
    THEN Ok(get_initial_messages(ex.description))
    ELSE IF ex.results = <<>>
         THEN Raise("IndexError", <<"list index out of range">>)
         ELSE get_retry_messages(ex.chat_history, ex.results[Len(ex.results)])

\* self.chat_history after Exercise.get_current_messages.
get_current_messages_chat_history(ex) ==
    IF ex.attempts = 0 \/ ex.results = <<>>
    THEN ex.chat_history
    ELSE get_retry_messages_chat_history(ex.chat_history, ex.results[Len(ex.results)])

\* An execute that starts the transcript afresh on every attempt.
execute_chat_history_AlwaysSeeds(history, n, descr, code) ==
    Append(get_initial_messages(descr), Message("assistant", code))

\* The transcript after Exercise.execute has raised attempts to n: seeded
\* when n = 1, then the assistant message with the code.
execute_chat_history(history, n, descr, code) ==
    Append(IF n = 1 THEN get_initial_messages(descr) ELSE history, Message("assistant", code))

\* An exercise that counts as completed as soon as it has any result.
is_completed_AnyResult(ex) == ex.results # <<>>

is_completed(ex) == \E k \in 1..Len(ex.results) : ex.results[k].status = PASSED

\* A retry guard that allows one attempt more than the budget.
can_retry_UpTo(ex) == ex.attempts <= ex.max_attempts /\ ~is_completed(ex)

can_retry(ex) == ex.attempts < ex.max_attempts /\ ~is_completed(ex)

(***************************************************************************)
(* Generated programs.  A program is a code text together with what        *)
(* executing it does: the exception exec() raises (if any), the text it    *)
(* writes to stdout, the names it binds, the value of evaluating it as an  *)
(* expression, the behaviour of the function / class it defines, and the   *)
(* stream it assigns to sys.stdout ("": it assigns none).                  *)
(***************************************************************************)
NoProgram ==
    [src |-> <<"">>, exec |-> Ok(PyNone), out |-> <<>>, binds |-> {},
     result |-> PyNone, expr |-> Raise("SyntaxError", <<"invalid syntax">>),
     fn |-> "none", trie |-> "none", stdout |-> ""]

Defines(src, name, behaviour) ==
    IF name \in {"Trie", "PrefixTree"}
    THEN [NoProgram EXCEPT !.src = src, !.binds = {name}, !.trie = behaviour]
    ELSE [NoProgram EXCEPT !.src = src, !.binds = {name}, !.fn = behaviour]

Raises(src, kind, msg) == [NoProgram EXCEPT !.src = src, !.exec = Raise(kind, msg)]

\* Programs that define add_numbers.
FunctionPrograms ==
    { Defines(<<"def add_numbers(a, b):", "    return a + b">>, "add_numbers", "add"),
      Defines(<<"def add_numbers(a, b):", "    return a - b">>, "add_numbers", "sub"),
      Defines(<<"def add_numbers(a, b):", "    return a + abs(b)">>, "add_numbers", "add_abs"),
      Defines(<<"def add_numbers(pair):", "    return pair[0] + pair[1]">>, "add_numbers", "pair_add"),
      Defines(<<"def add_numbers(a, b):", "    return a + str(b)">>, "add_numbers", "type_error"),
      Defines(<<"def add_numbers(a, b):", "    return a // (b - b)">>, "add_numbers", "zero_div"),
      Defines(<<"def add_numbers(a, b):", "    return 10 ** 5000">>, "add_numbers", "huge"),
      Defines(<<"def add_numbers(a, b):", "    raise SystemExit(a + b)">>, "add_numbers", "exit"),
      Defines(<<"def add(a, b):", "    return a + b">>, "add", "add") }

\* Programs that fail before binding anything.
FailingPrograms ==
    { Raises(<<"x = (">>, "SyntaxError", <<"'(' was never closed (<string>, line 1)">>),
      Raises(<<"x = 1 / 0">>, "ZeroDivisionError", <<"division by zero">>),
      Raises(<<"import sys", "sys.exit(0)">>, "SystemExit", <<"0">>),
      Raises(<<"raise ValueError()">>, "ValueError", <<>>),
      [Raises(<<"import sys", "sys.stdout = sys.stderr", "x = 1 / 0">>,
              "ZeroDivisionError", <<"division by zero">>) EXCEPT !.stdout = "sys.stderr"] }

\* Number of positional parameters of a function behaviour.
Arity(fn) ==
    CASE fn = "nullary" -> 0
      [] fn \in {"pair_add", "unary", "unary_raises"} -> 1
      [] fn = "ternary" -> 3
      [] OTHER -> 2

\* Calling the function defined by the program with positional arguments.
Call(fn, args) ==
    IF Len(args) # Arity(fn)
    THEN Raise("TypeError", <<"add_numbers() takes ">> \o IntStr(Arity(fn))
                            \o <<" positional arguments but ">> \o IntStr(Len(args))
                            \o <<" were given">>)
    ELSE CASE fn = "add"        -> Ok(PyInt(args[1].i + args[2].i))
           [] fn = "sub"        -> Ok(PyInt(args[1].i - args[2].i))
           [] fn = "add_abs"    -> Ok(PyInt(args[1].i + (IF args[2].i < 0 THEN 0 - args[2].i ELSE args[2].i)))
           [] fn = "pair_add"   -> Ok(PyInt(args[1].l[1].i + args[1].l[2].i))
           [] fn = "type_error" -> Raise("TypeError", <<"unsupported operand type(s) for +: 'int' and 'str'">>)
           [] fn = "zero_div"   -> Raise("ZeroDivisionError", <<"integer division or modulo by zero">>)
           [] fn = "huge"       -> Ok(PyUnprintable)
           [] fn = "exit"       -> Raise("SystemExit", IntStr(args[1].i + args[2].i))
           [] fn \in {"nullary", "unary", "binary", "ternary"} -> Ok(PyInt(Len(args)))
           [] fn = "unary_raises" -> Raise("TypeError", <<"can only concatenate str (not \"int\") to str">>)
           [] OTHER             -> Raise("TypeError", <<"object is not callable">>)

(***************************************************************************)
(* Named-function harness (create_function_test)                           *)
(***************************************************************************)
function_name == "add_numbers"

TestCase(input, output) ==
    [has_input |-> TRUE, has_output |-> TRUE, input |-> input, output |-> output]

\* The cases [((2, 3), 5), ((10, -5), 5)].
test_cases ==
    << TestCase(PyTuple(<<PyInt(2), PyInt(3)>>), PyInt(5)),
       TestCase(PyTuple(<<PyInt(10), PyInt(0 - 5)>>), PyInt(5)) >>

\* isinstance(inputs, tuple) and len(inputs) > 1
IsMultiTuple(inputs) == inputs.t = "tuple" /\ Len(inputs.l) > 1

\* A first call that unpacks every tuple or list of more than one element.
FirstArgs_AnySequence(inputs) ==
    IF inputs.t \in {"tuple", "list"} /\ Len(inputs.l) > 1 THEN inputs.l ELSE <<inputs>>

\* The arguments of the first call of a test case: the elements of a
\* multi-element tuple, else the input as one argument.
FirstArgs(inputs) == IF IsMultiTuple(inputs) THEN inputs.l ELSE <<inputs>>

\* The arguments of the call made after a TypeError: the input as one
\* argument for a multi-element tuple, the elements of any other tuple or
\* list, and the input again when it is neither.
FallbackArgs(inputs) ==
    IF IsMultiTuple(inputs) THEN <<inputs>>
    ELSE IF inputs.t \in {"tuple", "list"} THEN inputs.l
    ELSE <<inputs>>

\* A harness that forgets to unpack: the input is always one argument.
FirstCall_NoUnpack(fn, inputs) == Call(fn, <<inputs>>)

\* The first call of a test case.
FirstCall(fn, inputs) == Call(fn, FirstArgs(inputs))

\* The call made after a TypeError.
FallbackCall(fn, inputs) == Call(fn, FallbackArgs(inputs))

\* The argument lists func is called with for one test case, in order.
Invocations(fn, inputs) ==
    IF FirstCall(fn, inputs).exc = "TypeError"
    THEN <<FirstArgs(inputs), FallbackArgs(inputs)>>
    ELSE <<FirstArgs(inputs)>>

\* A comparison written with < where != was meant.
differs_LessThan(actual, expected) == actual.i < expected.i

\* actual != expected
differs(actual, expected) == ~PyEq(actual, expected)

\* What a harness hands back: the ExerciseResult it returns or the
\* exception that leaves it, and the log of calls it made to the
\* generated function (test case number and convention).
Graded(out, calls) == [out |-> out, calls |-> calls]

CallLog(i, convention) == [case |-> i, convention |-> convention]

\* The loop over the test cases, from case i on.
RECURSIVE RunCases(_, _, _, _)
RunCases(fn, cases, i, calls) ==
    IF i > Len(cases)
    THEN Graded(Ok(ExerciseResult(PASSED, PyStr(<<"All test cases passed">>),
                                  PyStr(<<"All test cases passed">>), PyNone)), calls)
    ELSE IF ~cases[i].has_input \/ ~cases[i].has_output
    THEN Graded(Ok(ExerciseResult(ERROR, PyNone, PyNone,
                   PyStr(<<"Test case ">> \o IntStr(i) \o <<" must have 'input' and 'output' fields">>))),
                calls)
    ELSE LET inputs   == cases[i].input
             expected == cases[i].output
             first    == FirstCall(fn, inputs)
             second   == FallbackCall(fn, inputs)
             retried  == first.exc = "TypeError"
             calls1   == Append(calls, CallLog(i, "first"))
             calls2   == IF retried THEN Append(calls1, CallLog(i, "fallback")) ELSE calls1
             actual   == IF retried THEN second.val ELSE first.val
         IN IF first.exc # "none" /\ ~retried
            THEN Graded(first, calls2)
            ELSE IF retried /\ second.exc # "none"
            THEN Graded(Ok(ExerciseResult(ERROR, PyNone, PyNone,
                           PyStr(<<"Test case ">> \o IntStr(i) \o <<" failed to execute: ">> \o first.msg))),
                        calls2)
            ELSE IF differs(actual, expected)
            THEN Graded(Ok(ExerciseResult(FAILED, expected, actual,
                           PyStr(<<"Test case ">> \o IntStr(i) \o <<" failed">>))),
                        calls2)
            ELSE RunCases(fn, cases, i + 1, calls2)

\* The outer except Exception of a harness: an Exception becomes an Error
\* result carrying str(e); anything else keeps propagating.
CatchException(g, expected) ==
    IF IsException(g.out.exc)
    THEN Graded(Ok(ExerciseResult(ERROR, expected, PyNone, PyStr(g.out.msg))), g.calls)
    ELSE g

\* A harness that runs the test cases without looking the function up.
function_test_NoLookup(prog) ==
    CatchException(
        IF prog.exec.exc # "none" THEN Graded(prog.exec, <<>>)
        ELSE RunCases(prog.fn, test_cases, 1, <<>>),
        PyNone)

\* create_function_test.test_function
function_test(prog) ==
    CatchException(
        IF prog.exec.exc # "none" THEN Graded(prog.exec, <<>>)
        ELSE IF function_name \notin prog.binds
        THEN Graded(Ok(ExerciseResult(ERROR, PyNone, PyNone,
                       PyStr(<<"Function '", function_name, "' not found in code">>))), <<>>)
        ELSE RunCases(prog.fn, test_cases, 1, <<>>),
        PyNone)

(***************************************************************************)
(* Raw-execution harness (create_code_execution_test)                      *)
(***************************************************************************)
Whitespace == {" ", "\n"}

\* str.strip() on a text of character tokens.
RECURSIVE StripChars(_)
StripChars(txt) ==
    IF txt = <<>> THEN <<>>
    ELSE IF Head(txt) \in Whitespace THEN StripChars(Tail(txt))
    ELSE IF txt[Len(txt)] \in Whitespace THEN StripChars(SubSeq(txt, 1, Len(txt) - 1))
    ELSE txt

DigitValue(c) ==
    CASE c = "0" -> 0 [] c = "1" -> 1 [] c = "2" -> 2 [] c = "3" -> 3 [] c = "4" -> 4
      [] c = "5" -> 5 [] c = "6" -> 6 [] c = "7" -> 7 [] c = "8" -> 8 [] c = "9" -> 9
      [] OTHER -> 0 - 1

IsDigits(txt) == txt # <<>> /\ \A k \in 1..Len(txt) : DigitValue(txt[k]) >= 0

RECURSIVE DigitsValue(_)
DigitsValue(txt) ==
    IF txt = <<>> THEN 0
    ELSE 10 * DigitsValue(SubSeq(txt, 1, Len(txt) - 1)) + DigitValue(txt[Len(txt)])

\* int(text): the parsed integer, or ValueError.
ParseInt(txt) ==
    IF IsDigits(txt) THEN Ok(PyInt(DigitsValue(txt)))
    ELSE IF txt # <<>> /\ Head(txt) = "-" /\ IsDigits(Tail(txt))
    THEN Ok(PyInt(0 - DigitsValue(Tail(txt))))
    ELSE Raise("ValueError", <<"invalid literal for int() with base 10">>)

\* type(expected_output)(output), falling back to the raw text when the
\* conversion raises.
Coerce(expected, output) ==
    IF expected.t = "int" /\ ParseInt(output).exc = "none"
    THEN ParseInt(output).val
    ELSE PyStr(output)

\* A harness that looks at the binding of result before the printed text.
ActualOutput_ResultFirst(expected, prog) ==
    IF "result" \in prog.binds THEN prog.result
    ELSE IF StripChars(prog.out) # <<>> THEN Coerce(expected, StripChars(prog.out))
    ELSE IF prog.expr.exc = "none" THEN prog.expr.val ELSE PyNone

\* The value the raw harness grades: printed text first, then the binding
\* of result, then the code evaluated as an expression (None when that
\* raises).
ActualOutput(expected, prog) ==
    LET output == StripChars(prog.out)
    IN IF output = <<>>
       THEN IF "result" \in prog.binds THEN prog.result
            ELSE IF prog.expr.exc = "none" THEN prog.expr.val ELSE PyNone
       ELSE Coerce(expected, output)

\* create_code_execution_test.test_function (with the default, empty
\* setup_code).
code_execution_test(expected, prog) ==
    CatchException(
        IF prog.exec.exc # "none" THEN Graded(prog.exec, <<>>)
        ELSE IF PyEq(ActualOutput(expected, prog), expected)
        THEN Graded(Ok(ExerciseResult(PASSED, expected, ActualOutput(expected, prog), PyNone)), <<>>)
        ELSE Graded(Ok(ExerciseResult(FAILED, expected, ActualOutput(expected, prog), PyNone)), <<>>),
        expected)

Prints(src, out) == [NoProgram EXCEPT !.src = src, !.out = out]

BindsResult(src, v) == [NoProgram EXCEPT !.src = src, !.binds = {"result"}, !.result = v]

Expression(src, v) == [NoProgram EXCEPT !.src = src, !.expr = Ok(v)]

\* Programs written for a raw-execution exercise.
RawPrograms ==
    { BindsResult(<<"result = 2 + 2">>, PyInt(4)),
      BindsResult(<<"result = 10 ** 5000">>, PyUnprintable),
      BindsResult(<<"class R(int):", "    __eq__ = lambda self, other: True",
                    "result = R(10 ** 5000)">>, PyAlwaysEqual),
      Prints(<<"print(2 + 2)">>, <<"4", "\n">>),
      Prints(<<"print(2 - 5)">>, <<"-", "3", "\n">>),
      Prints(<<"print('four')">>, <<"four", "\n">>),
      Expression(<<"2 + 2">>, PyInt(4)),
      [NoProgram EXCEPT !.src = <<"pass">>],
      [BindsResult(<<"result = 2 + 2", "print()">>, PyInt(4)) EXCEPT !.out = <<"\n">>],
      [BindsResult(<<"result = 5", "print(2 + 2)">>, PyInt(5)) EXCEPT !.out = <<"4", "\n">>],
      Prints(<<"print('Hello, World!')">>, <<"Hello, World!", "\n">>),
      [BindsResult(<<"import sys", "sys.stdout = sys.stderr", "result = 2 + 2">>, PyInt(4))
         EXCEPT !.stdout = "sys.stderr"],
      [NoProgram EXCEPT !.src = <<"import sys", "sys.stdout = sys.stderr", "print(2 + 2)">>,
                        !.stdout = "sys.stderr"] }

(***************************************************************************)
(* Custom harness for the Trie exercise (create_trie_test)                 *)
(***************************************************************************)
expected1 ==
    PyList(<<PyNone, PyNone, PyNone, PyBool(TRUE), PyBool(TRUE), PyBool(FALSE), PyInt(3)>>)

expected2 == PyList(<<PyNone, PyNone, PyInt(2), PyInt(0), PyBool(TRUE)>>)

\* The return values a Trie implementation gives to the scripted calls of
\* test case 1 / test case 2, or the exception it raises.
TrieScript(trie, n) ==
    CASE trie = "correct"    -> Ok(IF n = 1 THEN expected1 ELSE expected2)
      [] trie = "miscount"   -> Ok(IF n = 1
                                   THEN PyList([expected1.l EXCEPT ![7] = PyInt(2)])
                                   ELSE expected2)
      [] trie = "stale"      -> Ok(IF n = 1 THEN expected1
                                   ELSE PyList([expected2.l EXCEPT ![4] = PyInt(3)]))
      [] trie = "no_search"  -> Raise("AttributeError", <<"'Trie' object has no attribute 'search'">>)
      [] OTHER               -> Raise("SystemExit", <<"1">>)

TriePrograms ==
    { Defines(<<"class Trie:", "    # complete implementation">>, "Trie", "correct"),
      Defines(<<"class Trie:", "    # prefix_count misses the word itself">>, "Trie", "miscount"),
      Defines(<<"class Trie:", "    # nodes shared between instances">>, "Trie", "stale"),
      Defines(<<"class Trie:", "    # insert and prefix_count only">>, "Trie", "no_search"),
      Defines(<<"class Trie:", "    # insert calls exit(1)">>, "Trie", "exit"),
      Defines(<<"class PrefixTree:", "    # complete implementation">>, "PrefixTree", "correct") }

\* create_trie_test.test_function
trie_test(prog) ==
    LET r1 == TrieScript(prog.trie, 1)
        r2 == TrieScript(prog.trie, 2)
    IN CatchException(
        IF prog.exec.exc # "none" THEN Graded(prog.exec, <<>>)
        ELSE IF "Trie" \notin prog.binds
        THEN Graded(Ok(ExerciseResult(ERROR, PyNone, PyNone,
                       PyStr(<<"Trie class not found in code">>))), <<>>)
        ELSE IF r1.exc # "none" THEN Graded(r1, <<CallLog(1, "script")>>)
        ELSE IF differs(r1.val, expected1)
        THEN Graded(Ok(ExerciseResult(FAILED, expected1, r1.val, PyStr(<<"Test case 1 failed">>))),
                    <<CallLog(1, "script")>>)
        ELSE IF r2.exc # "none" THEN Graded(r2, <<CallLog(1, "script"), CallLog(2, "script")>>)
        ELSE IF differs(r2.val, expected2)
        THEN Graded(Ok(ExerciseResult(FAILED, expected2, r2.val, PyStr(<<"Test case 2 failed">>))),
                    <<CallLog(1, "script"), CallLog(2, "script")>>)
        ELSE Graded(Ok(ExerciseResult(PASSED, PyStr(<<"All test cases passed">>),
                                      PyStr(<<"All test cases passed">>), PyNone)),
                    <<CallLog(1, "script"), CallLog(2, "script")>>),
        PyNone)

(***************************************************************************)
(* Response sanitizer (BenchmarkRunner.clean_code_response).  A response   *)
(* is the sequence of its lines; the tests the code makes on a line are    *)
(* tables over the lines that occur in the model.                          *)
(***************************************************************************)
\* Lines holding the marker "</think>", with the text that follows it.
MarkerRest == ("</think>" :> "") @@ ("so just print it.</think>print(2 + 2)" :> "print(2 + 2)")

\* Lines whose stripped text starts with the fence marker (three backticks,
\* written FENCE here), bare or with a language tag.
FenceLines == {"FENCE", "FENCEpython"}

\* Lines that start with four spaces, with the line str.lstrip() leaves.
Unindent ==
    ("    return a + b" :> "return a + b") @@ ("    return a - b" :> "return a - b")
    @@ ("    return a + abs(b)" :> "return a + abs(b)")
    @@ ("    return pair[0] + pair[1]" :> "return pair[0] + pair[1]")
    @@ ("    return a + str(b)" :> "return a + str(b)")
    @@ ("    return a // (b - b)" :> "return a // (b - b)")
    @@ ("    return 10 ** 5000" :> "return 10 ** 5000")
    @@ ("    raise SystemExit(a + b)" :> "raise SystemExit(a + b)")
    @@ ("    # complete implementation" :> "# complete implementation")
    @@ ("    __eq__ = lambda self, other: True" :> "__eq__ = lambda self, other: True")
    @@ ("    # prefix_count misses the word itself" :> "# prefix_count misses the word itself")
    @@ ("    # nodes shared between instances" :> "# nodes shared between instances")
    @@ ("    # insert and prefix_count only" :> "# insert and prefix_count only")
    @@ ("    # insert calls exit(1)" :> "# insert calls exit(1)")

\* not line.strip()
IsBlank(line) == line = ""

\* Lines whose lowercase text contains one of the explanation patterns
\* ("here is", "this should", "this code", "output:", ...).
ExplanationLines == {"Here is the solution:", "This should work.", "This code adds the two numbers."}

\* Lines that contain one of the code patterns ("def ", "import ", "from ",
\* "=", "if ", "for ", "while ", "class ", "return", "print(").
CodePatternLines ==
    { "def add_numbers(a, b):", "def add_numbers(pair):", "def add(a, b):",
      "    return a + b", "    return a - b", "    return a + abs(b)",
      "    return pair[0] + pair[1]", "    return a + str(b)", "    return a // (b - b)",
      "    return 10 ** 5000", "return a + b",
      "x = (", "x = 1 / 0", "import sys", "sys.stdout = sys.stderr",
      "result = 2 + 2", "result = 10 ** 5000", "print(2 + 2)", "print(2 - 5)", "print('four')",
      "result = 5", "print()", "print('Hello, World!')",
      "class Trie:", "class PrefixTree:", "class R(int):", "result = R(10 ** 5000)",
      "so just print it.</think>print(2 + 2)" }

\* A sanitizer that leaves the reasoning block in the text.
AfterThink_KeepsAll(lines) == lines

\* response[think_index + len("</think>"):] when the marker occurs.
RECURSIVE AfterThink(_)
AfterThink(lines) ==
    IF lines = <<>> THEN <<>>
    ELSE IF Head(lines) \in DOMAIN MarkerRest
    THEN <<MarkerRest[Head(lines)]>> \o Tail(lines)
    ELSE AfterThink(Tail(lines))

HasMarker(lines) == \E k \in 1..Len(lines) : lines[k] \in DOMAIN MarkerRest

LStripLine(line) == IF line \in DOMAIN Unindent THEN Unindent[line] ELSE line

\* str.strip() on a multi-line text: blank lines at both ends go, and the
\* first line loses its indentation.  The empty text is one empty line.
RECURSIVE StripText(_)
StripText(lines) ==
    IF lines = <<>> THEN <<"">>
    ELSE IF IsBlank(LStripLine(Head(lines))) THEN StripText(Tail(lines))
    ELSE IF IsBlank(lines[Len(lines)]) THEN StripText(SubSeq(lines, 1, Len(lines) - 1))
    ELSE <<LStripLine(Head(lines))>> \o Tail(lines)

\* The scan over the lines: the lines kept so far and the in-fence flag.
RECURSIVE ScanLines(_, _, _)
ScanLines(lines, code_lines, in_code_block) ==
    IF lines = <<>> THEN code_lines
    ELSE LET line == Head(lines)
         IN IF line \in FenceLines
            THEN ScanLines(Tail(lines), code_lines, ~in_code_block)
            ELSE IF in_code_block
            THEN ScanLines(Tail(lines), Append(code_lines, line), in_code_block)
            ELSE IF IsBlank(line) \/ line \in ExplanationLines
            THEN ScanLines(Tail(lines), code_lines, in_code_block)
            ELSE IF line \in CodePatternLines \/ line \in DOMAIN Unindent \/ code_lines # <<>>
            THEN ScanLines(Tail(lines), Append(code_lines, line), in_code_block)
            ELSE ScanLines(Tail(lines), code_lines, in_code_block)

\* A sanitizer without the fallback: it returns what the scan kept, even
\* when that is nothing.
clean_code_response_NoFallback(response) ==
    LET rest == IF HasMarker(response) THEN AfterThink(response) ELSE response
    IN StripText(ScanLines(StripText(rest), <<>>, FALSE))

\* BenchmarkRunner.clean_code_response
clean_code_response(response) ==
    LET rest == IF HasMarker(response) THEN AfterThink(response) ELSE response
        code_lines == ScanLines(StripText(rest), <<>>, FALSE)
    IN IF code_lines = <<>> THEN StripText(rest) ELSE StripText(code_lines)

(***************************************************************************)
(* The exercise under test, the runner and the model client                *)
(***************************************************************************)
VARIABLES
    description,    \* Exercise.description
    test_function,  \* Exercise.test_function: the harness chosen at construction
    max_attempts,   \* Exercise.max_attempts
    attempts,       \* Exercise.attempts
    results,        \* Exercise.results
    chat_history,   \* Exercise.chat_history
    verbose,        \* BenchmarkRunner.verbose
    pc,             \* where run_exercise stands
    attempt_num,    \* run_exercise's local: the number of this attempt (0: none yet)
    messages,       \* run_exercise's local: the message list of this attempt
    calls,          \* the calls the harness made while grading the last code
    retval,         \* what the last run_exercise returned
    exception,      \* the exception that left run_exercise, if one did
    sys_stdout,     \* sys.stdout: the stream the process prints to
    response,       \* clean_code_response's argument
    cleaned,        \* what clean_code_response returned for it
    func,           \* the function a generated program defines
    test_case,      \* the test case the named-function harness runs on it
    graded,         \* what the harness handed back for that case
    invoked,        \* the argument lists the harness called func with, in order
    main_pc,        \* where run_benchmark.py's main stands ("off": not running)
    api_key,        \* main's local: the key from --api-key or the environment
    exercises,      \* BenchmarkRunner.exercises: what each exercise is constructed with
    index,          \* run_benchmark's loop: how many exercises it has taken up
    passed,         \* run_benchmark's local
    failed,         \* run_benchmark's local
    errors,         \* run_benchmark's local
    total_attempts, \* run_benchmark's local
    exit_code       \* the exit status of the process, once main_pc = "exited"

sanitizerVars == <<response, cleaned>>

harnessVars == <<func, test_case, graded, invoked>>

mainVars == <<main_pc, api_key, exercises, index, passed, failed, errors, total_attempts,
              exit_code>>

vars == <<description, test_function, max_attempts, attempts, results, chat_history,
          verbose, pc, attempt_num, messages, calls, retval, exception, sys_stdout,
          sanitizerVars, harnessVars, mainVars>>

\* What run_exercise and the exercise never touch.
others == <<sanitizerVars, harnessVars, mainVars>>

\* The exercises of the model: the add_numbers function test, the raw
\* execution tests of example_usage.py and of the Hello World exercise, and
\* the Trie test.
Exercises ==
    { [description |-> "Write a function add_numbers(a, b) that returns the sum of a and b.",
       test_function |-> [kind |-> "function", expected |-> PyNone]],
      [description |-> "Write code that calculates 2 + 2 and assigns it to a variable called 'result'.",
       test_function |-> [kind |-> "raw", expected |-> PyInt(4)]],
      [description |-> "Write code that prints exactly 'Hello, World!' to the console.",
       test_function |-> [kind |-> "raw", expected |-> PyStr(<<"Hello, World!">>)]],
      [description |-> "Implement a Trie with insert, search and prefix_count.",
       test_function |-> [kind |-> "trie", expected |-> PyNone]] }

AllPrograms == FunctionPrograms \cup RawPrograms \cup TriePrograms \cup FailingPrograms

\* What executing a code text does; a text that is no program of the model
\* does not compile.
ProgramOf(code) ==
    IF \E p \in AllPrograms : p.src = code
    THEN CHOOSE p \in AllPrograms : p.src = code
    ELSE Raises(code, "SyntaxError", <<"invalid syntax (<string>, line 1)">>)

\* self.test_function(code)
RunTest(tf, code) ==
    CASE tf.kind = "function" -> function_test(ProgramOf(code))
      [] tf.kind = "raw"      -> code_execution_test(tf.expected, ProgramOf(code))
      [] OTHER                -> trie_test(ProgramOf(code))

\* sys.stdout when exec(code) is over: the stream the code assigned, or the
\* one that was installed before.
AfterExec(prog, installed) == IF prog.stdout # "" THEN prog.stdout ELSE installed

\* A raw harness without the finally clause.
sys_stdout_after_NoFinally(tf, prog, found) ==
    IF tf.kind = "raw" THEN AfterExec(prog, "captured_output") ELSE AfterExec(prog, found)

\* sys.stdout when self.test_function(code) is over, however it ends: the
\* raw harness installs a StringIO around exec and puts old_stdout back in
\* its finally clause, the other harnesses leave the stream alone.
sys_stdout_after(tf, prog, found) ==
    IF tf.kind = "raw"
    THEN LET old_stdout == found
             during == AfterExec(prog, "captured_output")
         IN old_stdout
    ELSE AfterExec(prog, found)

\* The process is still running.
Running == 0 - 1

\* No exercise is being run.
NoExercise ==
    /\ description = ""
    /\ test_function = [kind |-> "none", expected |-> PyNone]
    /\ max_attempts = 0
    /\ attempts = 0
    /\ results = <<>>
    /\ chat_history = <<>>
    /\ verbose = FALSE
    /\ pc = "idle"
    /\ attempt_num = 0
    /\ messages = <<>>
    /\ calls = <<>>
    /\ retval = "none"
    /\ exception = Ok(PyNone)
    /\ sys_stdout = "sys.__stdout__"

\* clean_code_response is not being applied on its own.
NoSanitizer ==
    /\ response = <<>>
    /\ cleaned = <<>>

\* The named-function harness is not being applied on its own.
NoHarness ==
    /\ func = "none"
    /\ test_case = <<>>
    /\ graded = <<>>
    /\ invoked = <<>>

\* run_benchmark.py is not what drives the runner.
NoMain ==
    /\ main_pc = "off"
    /\ api_key = ""
    /\ exercises = <<>>
    /\ index = 0
    /\ passed = 0
    /\ failed = 0
    /\ errors = 0
    /\ total_attempts = 0
    /\ exit_code = Running

self == [description |-> description, max_attempts |-> max_attempts, attempts |-> attempts,
         results |-> results, chat_history |-> chat_history]

Init ==
    /\ \E e \in Exercises :
          /\ description = e.description
          /\ test_function = e.test_function
    /\ max_attempts \in (0 - 1)..MaxAttemptsBound
    /\ attempts = 0
    /\ results = <<>>
    /\ chat_history = <<>>
    /\ verbose \in BOOLEAN
    /\ pc = "idle"
    /\ attempt_num = 0
    /\ messages = <<>>
    /\ calls = <<>>
    /\ retval = "none"
    /\ exception = Ok(PyNone)
    /\ sys_stdout = "sys.__stdout__"
    /\ NoSanitizer
    /\ NoHarness
    /\ NoMain

\* The programs a model writes for an exercise of the given harness.
ProgramsFor(tf) ==
    FailingPrograms \cup
    (CASE tf.kind = "function" -> FunctionPrograms
       [] tf.kind = "raw"      -> RawPrograms
       [] OTHER                -> TriePrograms)

\* The replies of the model client: the bare code, the code in a fenced
\* block after a sentence of prose, or the code after a reasoning block.
Replies(tf) ==
    { p.src : p \in ProgramsFor(tf) }
    \cup { <<"Here is the solution:", "FENCEpython">> \o p.src \o <<"FENCE">> : p \in ProgramsFor(tf) }
    \cup { <<"<think>", "Add the two numbers.", "</think>", "">> \o p.src : p \in ProgramsFor(tf) }
    \cup { <<"I cannot solve this problem.">> }

\* The except branch of run_exercise: a synthetic Error result is appended
\* and the attempt counted, by the runner itself.
SystemError(n, e) ==
    /\ results' = Append(results, ExerciseResult(ERROR, PyNone, PyNone,
                                                 PyStr(<<"System error: ">> \o e.msg)))
    /\ attempts' = n + 1
    /\ pc' = "loop"

\* run_exercise is called on the exercise as it stands.
RunExercise ==
    /\ pc = "idle"
    /\ pc' = "loop"
    /\ retval' = "none"
    /\ attempt_num' = 0
    /\ messages' = <<>>
    /\ UNCHANGED <<description, test_function, max_attempts, attempts, results,
                   chat_history, verbose, calls>>
    /\ UNCHANGED <<exception, sys_stdout, others>>

\* while exercise.can_retry() is false: run_exercise returns False.
ReturnFalse ==
    /\ pc = "loop"
    /\ ~can_retry(self)
    /\ pc' = "idle"
    /\ retval' = "false"
    /\ UNCHANGED <<description, test_function, max_attempts, attempts, results,
                   chat_history, verbose, attempt_num, messages, calls>>
    /\ UNCHANGED <<exception, sys_stdout, others>>

\* The start of an iteration: messages = exercise.get_current_messages().
GetMessages ==
    /\ pc = "loop"
    /\ can_retry(self)
    /\ attempt_num' = attempts + 1
    /\ chat_history' = get_current_messages_chat_history(self)
    /\ LET m == get_current_messages(self)
       IN IF m.exc = "none"
          THEN /\ messages' = m.val
               /\ pc' = "call"
               /\ UNCHANGED <<attempts, results>>
          ELSE /\ SystemError(attempts, m)
               /\ UNCHANGED messages
    /\ UNCHANGED <<description, test_function, max_attempts, verbose, calls, retval>>
    /\ UNCHANGED <<exception, sys_stdout, others>>

\* The request fails: a transport error, a reply without choices, or a
\* reply whose content is None.
ClientFailures ==
    { Raise("APIConnectionError", <<"Connection error.">>),
      Raise("Exception", <<"No response received from model">>),
      Raise("AttributeError", <<"'NoneType' object has no attribute 'strip'">>) }

ClientFails(e) ==
    /\ pc = "call"
    /\ SystemError(attempts, e)
    /\ UNCHANGED <<description, test_function, max_attempts, chat_history, verbose,
                   attempt_num, messages, calls, retval>>
    /\ UNCHANGED <<exception, sys_stdout, others>>

\* Exercise.execute(code), inside the try block of run_exercise.
ClientReplies(content) ==
    /\ pc = "call"
    /\ LET code == clean_code_response(StripText(content))
           g == RunTest(test_function, code)
       IN /\ calls' = g.calls
          /\ sys_stdout' = sys_stdout_after(test_function, ProgramOf(code), sys_stdout)
          /\ IF g.out.exc = "none"
             THEN /\ attempts' = attempts + 1
                  /\ results' = Append(results, [g.out.val EXCEPT !.code_generated = PyStr(code)])
                  /\ chat_history' = execute_chat_history(chat_history, attempts + 1, description, code)
                  /\ pc' = "display"
                  /\ UNCHANGED exception
             ELSE IF IsException(g.out.exc)
             THEN /\ SystemError(attempts + 1, g.out)
                  /\ UNCHANGED <<chat_history, exception>>
             ELSE /\ attempts' = attempts + 1
                  /\ pc' = "raised"
                  /\ exception' = g.out
                  /\ UNCHANGED <<results, chat_history>>
    /\ UNCHANGED <<description, test_function, max_attempts, verbose, attempt_num,
                   messages, retval>>
    /\ UNCHANGED others

\* Whether the verbose display of a result raises while formatting it.
DisplayRaises(result) ==
    /\ verbose
    /\ \/ result.status = PASSED /\ ~Printable(result.actual_output)
       \/ result.status = FAILED
          /\ ~(Printable(result.expected_output) /\ Printable(result.actual_output))

\* The rest of the try block: the result is displayed and a Passed result
\* returns True.
Display ==
    /\ pc = "display"
    /\ LET result == results[Len(results)]
       IN IF DisplayRaises(result)
          THEN /\ SystemError(attempts, Raise("ValueError",
                        <<"Exceeds the limit for integer string conversion">>))
               /\ UNCHANGED retval
          ELSE IF result.status = PASSED
          THEN /\ pc' = "idle"
               /\ retval' = "true"
               /\ UNCHANGED <<attempts, results>>
          ELSE /\ pc' = "loop"
               /\ UNCHANGED <<attempts, results, retval>>
    /\ UNCHANGED <<description, test_function, max_attempts, chat_history, verbose,
                   attempt_num, messages, calls>>
    /\ UNCHANGED <<exception, sys_stdout, others>>

\* A reset that forgets the counter and the transcript but keeps the results.
Reset_KeepsResults ==
    /\ pc = "idle"
    /\ attempts' = 0
    /\ chat_history' = <<>>
    /\ UNCHANGED <<description, test_function, max_attempts, results, verbose, pc,
                   attempt_num, messages, calls, retval>>
    /\ UNCHANGED <<exception, sys_stdout, others>>

\* Exercise.reset(), between runs.
Reset ==
    /\ pc = "idle"
    /\ attempts' = 0
    /\ results' = <<>>
    /\ chat_history' = <<>>
    /\ UNCHANGED <<description, test_function, max_attempts, verbose, pc, attempt_num,
                   messages, calls, retval>>
    /\ UNCHANGED <<exception, sys_stdout, others>>

Next ==
    \/ RunExercise
    \/ ReturnFalse
    \/ GetMessages
    \/ \E e \in ClientFailures : ClientFails(e)
    \/ \E content \in Replies(test_function) : ClientReplies(content)
    \/ Display
    \/ Reset

Spec == Init /\ [][Next]_vars

(***************************************************************************)
(* The command line program (run_benchmark.py): main loads a suite, makes  *)
(* the runner and calls run_benchmark, which runs the exercises in order.  *)
(***************************************************************************)
\* Largest number of exercises in a suite.
MaxExercises == 2

\* The exercises in the order load_exercises puts them.
ExerciseList ==
    LET of(kind, expected) ==
            CHOOSE e \in Exercises : e.test_function = [kind |-> kind, expected |-> expected]
    IN << of("raw", PyStr(<<"Hello, World!">>)), of("function", PyNone),
          of("trie", PyNone), of("raw", PyInt(4)) >>

\* The suites a run is given: the first exercises of the list.
Suites == { SubSeq(ExerciseList, 1, b) : b \in 1..Len(ExerciseList) }

MainInit ==
    /\ main_pc = "main"
    /\ api_key \in {"", "sk-or-v1"}
    /\ exercises \in {suite \in Suites : Len(suite) <= MaxExercises}
    /\ max_attempts \in (0 - 1)..MaxAttemptsBound
    /\ verbose \in BOOLEAN
    /\ description = ""
    /\ test_function = [kind |-> "none", expected |-> PyNone]
    /\ attempts = 0
    /\ results = <<>>
    /\ chat_history = <<>>
    /\ pc = "idle"
    /\ attempt_num = 0
    /\ messages = <<>>
    /\ calls = <<>>
    /\ retval = "none"
    /\ exception = Ok(PyNone)
    /\ sys_stdout = "sys.__stdout__"
    /\ index = 0
    /\ passed = 0
    /\ failed = 0
    /\ errors = 0
    /\ total_attempts = 0
    /\ exit_code = Running
    /\ NoSanitizer
    /\ NoHarness

\* sys.exit(status)
Exit(status) ==
    /\ main_pc' = "exited"
    /\ exit_code' = status

\* main up to the try block: the API key check and the construction of the
\* runner, which may raise.
Main ==
    /\ main_pc = "main"
    /\ IF api_key = ""
       THEN Exit(1)
       ELSE \E created \in BOOLEAN :
               IF created
               THEN /\ main_pc' = "run_benchmark"
                    /\ UNCHANGED exit_code
               ELSE Exit(1)
    /\ UNCHANGED <<description, test_function, max_attempts, attempts, results,
                   chat_history, verbose, pc, attempt_num, messages, calls, retval,
                   exception, sys_stdout, sanitizerVars, harnessVars, api_key, exercises, index,
                   passed, failed, errors, total_attempts>>

\* run_benchmark up to its loop: an unavailable backend raises Exception,
\* which main's except Exception turns into exit status 1.
RunBenchmark ==
    /\ main_pc = "run_benchmark"
    /\ \E available \in BOOLEAN :
          IF available
          THEN /\ main_pc' = "for"
               /\ UNCHANGED exit_code
          ELSE Exit(1)
    /\ passed' = 0
    /\ failed' = 0
    /\ errors' = 0
    /\ total_attempts' = 0
    /\ UNCHANGED <<description, test_function, max_attempts, attempts, results,
                   chat_history, verbose, pc, attempt_num, messages, calls, retval,
                   exception, sys_stdout, sanitizerVars, harnessVars, api_key, exercises, index>>

\* The loop takes up the next exercise, as constructed, and calls
\* run_exercise on it.
ForExercise ==
    /\ main_pc = "for"
    /\ index < Len(exercises)
    /\ index' = index + 1
    /\ description' = exercises[index + 1].description
    /\ test_function' = exercises[index + 1].test_function
    /\ attempts' = 0
    /\ results' = <<>>
    /\ chat_history' = <<>>
    /\ pc' = "loop"
    /\ retval' = "none"
    /\ attempt_num' = 0
    /\ messages' = <<>>
    /\ calls' = <<>>
    /\ main_pc' = "run_exercise"
    /\ UNCHANGED <<max_attempts, verbose, exception, sys_stdout, sanitizerVars, harnessVars,
                   api_key, exercises, passed, failed, errors, total_attempts, exit_code>>

\* A loop body that counts an exercise whose run ended on an Error result
\* as failed as well.
Tally_CountsTwice ==
    /\ main_pc = "run_exercise"
    /\ pc = "idle"
    /\ total_attempts' = total_attempts + attempts
    /\ passed' = IF retval = "true" THEN passed + 1 ELSE passed
    /\ errors' = IF retval # "true" /\ results # <<>> /\ results[Len(results)].status = ERROR
                 THEN errors + 1 ELSE errors
    /\ failed' = IF retval # "true" THEN failed + 1 ELSE failed
    /\ main_pc' = "for"
    /\ UNCHANGED <<description, test_function, max_attempts, attempts, results,
                   chat_history, verbose, pc, attempt_num, messages, calls, retval,
                   exception, sys_stdout, sanitizerVars, harnessVars, api_key, exercises,
                   index, exit_code>>

\* run_exercise has returned: the loop body counts the exercise.
Tally ==
    /\ main_pc = "run_exercise"
    /\ pc = "idle"
    /\ total_attempts' = total_attempts + attempts
    /\ passed' = IF retval = "true" THEN passed + 1 ELSE passed
    /\ errors' = IF retval # "true" /\ results # <<>> /\ results[Len(results)].status = ERROR
                 THEN errors + 1 ELSE errors
    /\ failed' = IF retval # "true" /\ ~(results # <<>> /\ results[Len(results)].status = ERROR)
                 THEN failed + 1 ELSE failed
    /\ main_pc' = "for"
    /\ UNCHANGED <<description, test_function, max_attempts, attempts, results,
                   chat_history, verbose, pc, attempt_num, messages, calls, retval,
                   exception, sys_stdout, sanitizerVars, harnessVars, api_key, exercises,
                   index, exit_code>>

\* BenchmarkStats.success_rate > 0
success_rate_positive(total_exercises, passed_exercises) ==
    total_exercises # 0 /\ passed_exercises > 0

\* The loop is over: the statistics are made and main exits with status 0
\* when the success rate is positive, 1 otherwise.
Finish ==
    /\ main_pc = "for"
    /\ index = Len(exercises)
    /\ Exit(IF success_rate_positive(Len(exercises), passed) THEN 0 ELSE 1)
    /\ UNCHANGED <<description, test_function, max_attempts, attempts, results,
                   chat_history, verbose, pc, attempt_num, messages, calls, retval,
                   exception, sys_stdout, sanitizerVars, harnessVars, api_key, exercises, index,
                   passed, failed, errors, total_attempts>>

\* The user interrupts the program while it waits for the model.
Interrupt ==
    /\ main_pc = "run_exercise"
    /\ pc = "call"
    /\ pc' = "raised"
    /\ exception' = Raise("KeyboardInterrupt", <<>>)
    /\ UNCHANGED <<description, test_function, max_attempts, attempts, results,
                   chat_history, verbose, attempt_num, messages, calls, retval,
                   sys_stdout, others>>

\* The status of a process that ends by SystemExit(arg).
ExitStatus(e) == IF ParseInt(e.msg).exc = "none" THEN ParseInt(e.msg).val.i ELSE 1

\* An exception has left run_exercise and run_benchmark: main turns
\* KeyboardInterrupt into exit status 1; SystemExit passes both except
\* clauses and ends the process with its own status.
Escape ==
    /\ main_pc = "run_exercise"
    /\ pc = "raised"
    /\ Exit(IF exception.exc = "KeyboardInterrupt" THEN 1 ELSE ExitStatus(exception))
    /\ UNCHANGED <<description, test_function, max_attempts, attempts, results,
                   chat_history, verbose, pc, attempt_num, messages, calls, retval,
                   exception, sys_stdout, sanitizerVars, harnessVars, api_key, exercises, index,
                   passed, failed, errors, total_attempts>>

MainNext ==
    \/ Main
    \/ RunBenchmark
    \/ ForExercise
    \/ ReturnFalse
    \/ GetMessages
    \/ \E e \in ClientFailures : ClientFails(e)
    \/ \E content \in Replies(test_function) : ClientReplies(content)
    \/ Display
    \/ Interrupt
    \/ Escape
    \/ Tally
    \/ Finish

MainSpec == MainInit /\ [][MainNext]_vars

(***************************************************************************)
(* The named-function harness on its own: one test case run against a      *)
(* function, for every shape of input and every arity.                     *)
(***************************************************************************)
\* Largest number of items of a tuple or list input.
MaxArgs == 3

\* Test inputs: a scalar, and the tuples and lists of up to MaxArgs items.
HarnessInputs ==
    {PyInt(7)}
    \cup {PyTuple([k \in 1..n |-> PyInt(k)]) : n \in 0..MaxArgs}
    \cup {PyList([k \in 1..n |-> PyInt(k)]) : n \in 0..MaxArgs}

\* Functions of every arity that return the number of their parameters,
\* and functions whose body raises.
HarnessFunctions ==
    {"nullary", "unary", "binary", "ternary", "unary_raises", "type_error", "zero_div", "exit"}

HarnessInit ==
    /\ NoExercise
    /\ NoSanitizer
    /\ NoMain
    /\ func \in HarnessFunctions
    /\ test_case \in {TestCase(input, PyInt(output)) : input \in HarnessInputs, output \in 1..2}
    /\ graded = <<>>
    /\ invoked = <<>>

\* test_function runs the one test case on func.
RunCase ==
    /\ graded = <<>>
    /\ graded' = CatchException(RunCases(func, <<test_case>>, 1, <<>>), PyNone)
    /\ invoked' = Invocations(func, test_case.input)
    /\ UNCHANGED <<description, test_function, max_attempts, attempts, results,
                   chat_history, verbose, pc, attempt_num, messages, calls, retval,
                   exception, sys_stdout, func, test_case, sanitizerVars, mainVars>>

HarnessNext == RunCase

HarnessSpec == HarnessInit /\ [][HarnessNext]_vars

(***************************************************************************)
(* The sanitizer on its own: clean_code_response applied to every text of  *)
(* up to MaxLines lines.                                                   *)
(***************************************************************************)
\* Largest number of lines of a text.
MaxLines == 4

\* The lines the texts are made of: a fence marker, a blank line, a line of
\* prose, a line with a code pattern, an indented line, a line with no
\* pattern at all and the reasoning-closing marker.
SanitizerLines ==
    {"FENCE", "", "Here is the solution:", "x = 1 / 0", "    return a + b", "pass", "</think>"}

Texts == UNION {[1..k -> SanitizerLines] : k \in 1..MaxLines}

SanitizerInit ==
    /\ NoExercise
    /\ response \in Texts
    /\ cleaned = <<>>
    /\ NoHarness
    /\ NoMain

\* code = self.clean_code_response(response)
Sanitize ==
    /\ cleaned = <<>>
    /\ cleaned' = clean_code_response(response)
    /\ UNCHANGED <<description, test_function, max_attempts, attempts, results,
                   chat_history, verbose, pc, attempt_num, messages, calls, retval,
                   exception, sys_stdout, response, harnessVars, mainVars>>

SanitizerNext == Sanitize

SanitizerSpec == SanitizerInit /\ [][SanitizerNext]_vars

(***************************************************************************)
(* Properties                                                              *)
(***************************************************************************)
LastResult == results[Len(results)]

\* A result recorded by Exercise.execute carries the code it graded; the
\* synthetic result of the runner's except branch carries none.
IsGraded(r) == r.code_generated.t # "none"

GradedCount == Cardinality({k \in 1..Len(results) : IsGraded(results[k])})

AssistantCount ==
    Cardinality({k \in 1..Len(chat_history) : chat_history[k].role = "assistant"})

IsFeedback(m) == m.role = "user" /\ m.content # <<>> /\ Head(m.content) = FeedbackHead

FeedbackCount == Cardinality({k \in 1..Len(chat_history) : IsFeedback(chat_history[k])})

StartsWithSeed(msgs) ==
    /\ Len(msgs) >= 2
    /\ SubSeq(msgs, 1, 2) = get_initial_messages(description)

\* C1: during a run of an exercise with max_attempts >= 0, attempts never
\* exceeds max_attempts.
C1_AttemptsWithinBudget == max_attempts >= 0 => attempts <= max_attempts

\* C2: the number of recorded results equals the attempt counter after
\* every operation that records an attempt, and after reset.
C2_ResultsMatchAttempts == Len(results) = attempts

\* C3: once an attempt is recorded the transcript starts with the system
\* message and the problem statement, and so does every message list
\* handed to the model client on a retry.
C3_TranscriptSeeded ==
    (attempts >= 1 /\ results # <<>>) =>
        /\ StartsWithSeed(chat_history)
        /\ pc = "call" => StartsWithSeed(messages)

\* C4: the transcript holds one assistant message per attempt.
C4_AssistantPerAttempt == AssistantCount = attempts

\* C5: after k >= 2 attempts recorded by execute, the transcript holds the
\* k - 1 feedback messages that were sent before the retries.
C5_FeedbackKept ==
    (attempts >= 2 /\ GradedCount = attempts) => FeedbackCount = attempts - 1

\* C6: the feedback built from a Failed result shows its expected and its
\* actual value.
C6_FeedbackShowsValues ==
    (pc = "call" /\ results # <<>> /\ LastResult.status = FAILED) =>
        LET feedback == messages[Len(messages)].content
        IN /\ Contains(feedback, PyFormat(LastResult.expected_output))
           /\ Contains(feedback, PyFormat(LastResult.actual_output))

\* C7: no exception raised by generated code leaves the harness and
\* Exercise.execute.
C7_NoEscape == pc # "raised"

\* C8: an iteration of run_exercise that ends in the except branch has
\* counted exactly one attempt.
C8_FailureCountsOnce ==
    (pc = "loop" /\ attempt_num # 0 /\ results # <<>> /\ ~IsGraded(LastResult)) =>
        attempts = attempt_num

SubSrc == <<"def add_numbers(a, b):", "    return a - b">>

\* execute has just graded the given code with the named-function harness.
JustGraded(src) ==
    /\ test_function.kind = "function"
    /\ pc = "display"
    /\ LastResult.code_generated = PyStr(src)

\* C9 (as stated): a - b is graded Failed with expected 5 and actual -3.
C9_SubYieldsMinusThree ==
    JustGraded(SubSrc) =>
        /\ LastResult.status = FAILED
        /\ LastResult.expected_output = PyInt(5)
        /\ LastResult.actual_output = PyInt(0 - 3)

\* C9 (amended): a - b is graded Failed on the first case, with expected 5
\* and actual -1, and the second case is never called.
C9_SubYieldsMinusOne ==
    JustGraded(SubSrc) =>
        /\ LastResult.status = FAILED
        /\ LastResult.expected_output = PyInt(5)
        /\ LastResult.actual_output = PyInt(0 - 1)
        /\ LastResult.error_message = PyStr(<<"Test case ", "1", " failed">>)
        /\ calls = <<CallLog(1, "first")>>

C9_Witness == JustGraded(SubSrc)

\* The value the function of the graded program gives for test case k,
\* called the way the case's input asks for.
CaseOutcome(fn, k) ==
    IF test_cases[k].input.t = "tuple" /\ Len(test_cases[k].input.l) > 1
    THEN Call(fn, test_cases[k].input.l)
    ELSE Call(fn, <<test_cases[k].input>>)

CaseMatches(fn, k) ==
    /\ CaseOutcome(fn, k).exc = "none"
    /\ PyEq(CaseOutcome(fn, k).val, test_cases[k].output)

\* The cases the harness has to call: up to the first one that does not
\* match.
CasesDue(fn) ==
    {k \in 1..Len(test_cases) : \A j \in 1..(k - 1) : CaseMatches(fn, j)}

\* The named function exists and no call that is due raises.
GradedCleanly(prog) ==
    /\ prog.exec.exc = "none"
    /\ function_name \in prog.binds
    /\ \A k \in CasesDue(prog.fn) : CaseOutcome(prog.fn, k).exc = "none"

\* C10: when the function exists and no call raises, the result is Passed
\* iff every case matches; otherwise it is Failed with the number, the
\* expected and the actual output of the first mismatching case, and no
\* later case is called.
C10_FunctionGrading ==
    \A src \in {p.src : p \in FunctionPrograms} :
        (JustGraded(src) /\ GradedCleanly(ProgramOf(src))) =>
            LET fn == ProgramOf(src).fn
                due == CasesDue(fn)
                m == CHOOSE k \in due : \A j \in due : j <= k
            IN /\ calls = [k \in 1..Cardinality(due) |-> CallLog(k, "first")]
               /\ IF \A k \in 1..Len(test_cases) : CaseMatches(fn, k)
                  THEN LastResult.status = PASSED
                  ELSE /\ LastResult.status = FAILED
                       /\ LastResult.expected_output = test_cases[m].output
                       /\ LastResult.actual_output = CaseOutcome(fn, m).val
                       /\ LastResult.error_message = PyStr(<<"Test case ">> \o IntStr(m) \o <<" failed">>)

\* A program that passes the first case and fails the second has just
\* been graded.
C10_Witness ==
    /\ pc = "display"
    /\ test_function.kind = "function"
    /\ GradedCleanly(ProgramOf(LastResult.code_generated.s))
    /\ LastResult.status = FAILED
    /\ Len(calls) = 2


\* The raw harness has just graded a program that ran to its end.
RawGraded ==
    /\ test_function.kind = "raw"
    /\ pc = "display"
    /\ LastResult.status # ERROR

PassedResults == {k \in 1..Len(results) : results[k].status = PASSED}

\* C12: in every reachable state is_completed() is true exactly when some
\* recorded result is Passed; it is false for an exercise without results.
C12_CompletedIffPassed ==
    /\ is_completed(self) <=> Cardinality(PassedResults) >= 1
    /\ results = <<>> => ~is_completed(self)

\* A Passed result recorded after one that is not.
C12_Witness ==
    /\ Len(results) >= 2
    /\ results[1].status # PASSED
    /\ is_completed(self)

\* C13: can_retry() is true exactly when attempts < max_attempts and no
\* result is Passed; an exercise with max_attempts <= 0 is never attempted:
\* run_exercise builds no message list and sends no request for it.
C13_RetryGuard ==
    /\ can_retry(self) <=> (attempts < max_attempts /\ PassedResults = {})
    /\ max_attempts <= 0 =>
          /\ attempts = 0
          /\ results = <<>>
          /\ chat_history = <<>>
          /\ messages = <<>>
          /\ pc \in {"idle", "loop"}

\* run_exercise has returned on an exercise without budget.
C13_Witness ==
    /\ max_attempts <= 0
    /\ pc = "idle"
    /\ retval = "false"

\* C14: get_current_messages() changes nothing of the exercise, so a second
\* call right after it returns the list the first call returned.
C14_CurrentMessagesIdempotent ==
    [][(pc = "loop" /\ pc' = "call") =>
          /\ attempts' = attempts
          /\ results' = results
          /\ chat_history' = chat_history
          /\ get_current_messages(self)' = Ok(messages')]_vars

\* A retry request has been built from a transcript and a feedback message.
C14_Witness ==
    /\ pc = "call"
    /\ attempts >= 1
    /\ Len(messages) = Len(chat_history) + 1

\* C15: reset() sets attempts to 0 and empties results and transcript, and
\* leaves description, max_attempts and the test function as they were;
\* after it get_current_messages() returns the two-message seed of a fresh
\* exercise and can_retry() is true when max_attempts > 0.
C15_ResetRestores ==
    [][(pc = "idle" /\ pc' = "idle") =>
          /\ attempts' = 0
          /\ results' = <<>>
          /\ chat_history' = <<>>
          /\ description' = description
          /\ max_attempts' = max_attempts
          /\ test_function' = test_function
          /\ get_current_messages(self)' = Ok(get_initial_messages(description))
          /\ Len(get_initial_messages(description)) = 2
          /\ max_attempts > 0 => can_retry(self)']_vars

\* An exercise that had passed, after reset().
C15_Witness ==
    /\ pc = "idle"
    /\ retval = "true"
    /\ attempts = 0
    /\ results = <<>>
    /\ chat_history = <<>>
    /\ can_retry(self)

\* A text made of an opening fence line, code lines and a closing fence line.
Fenced(text) ==
    /\ Len(text) >= 3
    /\ text[1] \in FenceLines
    /\ text[Len(text)] \in FenceLines

FencedCode(text) == SubSeq(text, 2, Len(text) - 1)

\* C16: clean_code_response applied to an opening fence line, the lines of
\* a code text and a closing fence line returns exactly the code text.
C16_RoundTrip ==
    (cleaned # <<>> /\ Fenced(response)) => cleaned = FencedCode(response)

\* C17: the process exits with status 0 only if an exercise passed, and
\* with status 1 otherwise.
C17_ExitCode ==
    main_pc = "exited" =>
        /\ exit_code \in {0, 1}
        /\ exit_code = 0 => passed > 0

\* get_current_messages() has returned the request of a retry.
RetryRequest ==
    /\ pc = "call"
    /\ attempts >= 1
    /\ results # <<>>

\* C18: once attempts >= 1, the list get_current_messages() returns is the
\* stored transcript, unchanged and in order, followed by exactly one more
\* message, of role user, made from the most recent result.
C18_RetryRequestShape ==
    RetryRequest =>
        /\ Len(messages) = Len(chat_history) + 1
        /\ SubSeq(messages, 1, Len(chat_history)) = chat_history
        /\ messages[Len(messages)].role = "user"
        /\ error_info(LastResult).exc = "none"
        /\ messages[Len(messages)] = feedback_message(error_info(LastResult).val)

\* A retry request built on a transcript that holds a graded attempt.
C18_Witness ==
    /\ RetryRequest
    /\ Len(chat_history) >= 3
    /\ IsFeedback(messages[Len(messages)])

\* C19: the feedback states the error message of the previous result when
\* it has one, and then no expected/actual text; otherwise it states the
\* expected and the actual output when both are present; otherwise it
\* states neither.  It always ends with the instruction to send corrected
\* code.
C19_FeedbackPrecedence ==
    RetryRequest =>
        LET r == LastResult
            feedback == messages[Len(messages)].content
            both == r.expected_output.t # "none" /\ r.actual_output.t # "none"
        IN /\ Truthy(r.error_message) =>
                 /\ Contains(feedback, <<"Error: ">> \o r.error_message.s)
                 /\ ~Contains(feedback, <<"Expected: ">>)
           /\ (~Truthy(r.error_message) /\ both) =>
                 /\ Contains(feedback, <<"Expected: ">> \o PyFormat(r.expected_output)
                                       \o <<", but got: ">> \o PyFormat(r.actual_output))
                 /\ ~Contains(feedback, <<"Error: ">>)
           /\ (~Truthy(r.error_message) /\ ~both) =>
                 /\ ~Contains(feedback, <<"Error: ">>)
                 /\ ~Contains(feedback, <<"Expected: ">>)
           /\ feedback[Len(feedback)] = FeedbackTail

\* Feedback for a result that has an error message as well as both values.
C19_Witness ==
    /\ RetryRequest
    /\ Truthy(LastResult.error_message)
    /\ LastResult.expected_output.t # "none"
    /\ LastResult.actual_output.t # "none"

\* The harness has graded the test case with an Error result.
CaseError == graded.out.exc = "none" /\ graded.out.val.status = ERROR

NameMissing ==
    /\ pc = "display"
    /\ test_function.kind \in {"function", "trie"}
    /\ ProgramOf(LastResult.code_generated.s).exec.exc = "none"
    /\ (IF test_function.kind = "function" THEN function_name ELSE "Trie")
          \notin ProgramOf(LastResult.code_generated.s).binds

\* C21: when the executed code does not define the function of a
\* named-function test, or the class Trie of the custom test, the harness
\* returns Error with its not-found message and makes no call at all.
C21_NameNotFound ==
    NameMissing =>
        /\ LastResult.status = ERROR
        /\ LastResult.error_message =
              (IF test_function.kind = "function"
               THEN PyStr(<<"Function '", "add_numbers", "' not found in code">>)
               ELSE PyStr(<<"Trie class not found in code">>))
        /\ calls = <<>>

\* A program that defines add instead of add_numbers has been graded.
C21_Witness ==
    /\ NameMissing
    /\ test_function.kind = "function"
    /\ LastResult.code_generated = PyStr(<<"def add(a, b):", "    return a + b">>)


\* C22: after any sequence of attempts at a raw-execution exercise the
\* process prints to the stream it started with: the harness puts sys.stdout
\* back on its way out, whether the code was graded Passed or Failed or
\* raised, and whatever the code assigned to sys.stdout itself.
C22_StdoutRestored ==
    test_function.kind = "raw" => sys_stdout = "sys.__stdout__"

\* A raw harness has graded code that redirected sys.stdout and then raised,
\* after an earlier attempt that redirected it and was graded Failed.
C22_Witness ==
    /\ test_function.kind = "raw"
    /\ pc = "loop"
    /\ Len(results) = 2
    /\ results[1].status = FAILED
    /\ results[1].code_generated = PyStr(<<"import sys", "sys.stdout = sys.stderr", "print(2 + 2)">>)
    /\ results[2].status = ERROR
    /\ results[2].code_generated = PyStr(<<"import sys", "sys.stdout = sys.stderr", "x = 1 / 0">>)
    /\ results[2].error_message = PyStr(<<"division by zero">>)


\* The position of the first line that holds the reasoning-closing marker.
FirstMarker(text) ==
    CHOOSE k \in 1..Len(text) :
        /\ text[k] \in DOMAIN MarkerRest
        /\ \A j \in 1..(k - 1) : text[j] \notin DOMAIN MarkerRest

\* The text that follows the first marker.
PastMarker(text) ==
    <<MarkerRest[text[FirstMarker(text)]]>> \o SubSeq(text, FirstMarker(text) + 1, Len(text))

\* The lines of out are lines of text, in the order of text; a line may have
\* lost its indentation.
RECURSIVE TakenFrom(_, _)
TakenFrom(out, text) ==
    IF out = <<>> THEN TRUE
    ELSE IF text = <<>> THEN FALSE
    ELSE IF Head(out) \in {Head(text), LStripLine(Head(text))}
    THEN TakenFrom(Tail(out), Tail(text)) \/ TakenFrom(out, Tail(text))
    ELSE TakenFrom(out, Tail(text))

\* C23: when the response holds the reasoning-closing marker, what the
\* sanitizer returns is made of the text that follows the first marker only:
\* it is empty or a selection, in order, of the lines after the marker.
C23_ThinkDiscarded ==
    (HasMarker(response) /\ cleaned # <<>>) =>
        \/ cleaned = <<"">>
        \/ TakenFrom(cleaned, PastMarker(response))

\* A response with code before the marker and other code after it has been
\* sanitized.
C23_Witness ==
    /\ response = <<"x = 1 / 0", "</think>", "    return a + b", "pass">>
    /\ cleaned = <<"return a + b", "pass">>


\* The lines of a text that stand strictly inside a fence, in order.
RECURSIVE InsideFence(_, _)
InsideFence(text, inside) ==
    IF text = <<>> THEN <<>>
    ELSE IF Head(text) \in FenceLines THEN InsideFence(Tail(text), ~inside)
    ELSE IF inside THEN <<Head(text)>> \o InsideFence(Tail(text), inside)
    ELSE InsideFence(Tail(text), inside)

\* The lines of kept occur in out as they are, in the order of kept.
RECURSIVE KeptVerbatim(_, _)
KeptVerbatim(kept, out) ==
    IF kept = <<>> THEN TRUE
    ELSE IF out = <<>> THEN FALSE
    ELSE IF Head(kept) = Head(out) THEN KeptVerbatim(Tail(kept), Tail(out))
    ELSE KeptVerbatim(kept, Tail(out))

\* C24: no fence-marker line appears in what the sanitizer returns, and every
\* line strictly inside a fence is in it verbatim and in order, whatever its
\* shape (responses without a reasoning block).
C24_FenceHandling ==
    (cleaned # <<>> /\ ~HasMarker(response)) =>
        /\ \A k \in 1..Len(cleaned) : cleaned[k] \notin FenceLines
        /\ KeptVerbatim(InsideFence(response, FALSE), cleaned)


\* The text the scan works on: the response, or what follows its first
\* reasoning-closing marker.
Scanned(text) == IF HasMarker(text) THEN PastMarker(text) ELSE text

\* The response has been sanitized and the scan kept none of its lines.
NoLineSurvives ==
    /\ cleaned # <<>>
    /\ ScanLines(StripText(Scanned(response)), <<>>, FALSE) = <<>>

Extends(new, old) == Len(old) <= Len(new) /\ SubSeq(new, 1, Len(old)) = old

\* C26: every step other than reset() leaves attempts at least as large as
\* it was and keeps every recorded result and every transcript entry in its
\* place: the lists only grow at the end.  This covers get_current_messages,
\* execute and run_exercise, and a run_exercise called again on the same
\* exercise without a reset in between.
C26_OnlyResetForgets ==
    [][ \/ Reset
        \/ /\ attempts' >= attempts
           /\ Extends(results', results)
           /\ Extends(chat_history', chat_history) ]_vars

\* run_exercise has been called a second time, without a reset, on an
\* exercise that holds two results and a transcript of two attempts.
C26_Witness ==
    /\ pc = "loop"
    /\ attempt_num = 0
    /\ attempts = 2
    /\ Len(results) = 2
    /\ Len(chat_history) = 4
    /\ chat_history[3].content # chat_history[4].content


\* The step that ends an iteration of the loop of run_exercise: the request
\* or the grading has failed, or the graded result has been displayed.
IterationEnds ==
    /\ pc \in {"call", "display"}
    /\ pc' \in {"loop", "idle"}

\* C27: with a budget that is not negative, every iteration of the loop of
\* run_exercise adds exactly one to attempts (attempt_num is attempts + 1 as
\* the iteration found it), the loop starts no iteration beyond the budget,
\* and when run_exercise returns the exercise is either completed or
\* exhausted, which is attempts = max_attempts and no Passed result.
C27_LoopAccounting ==
    [][ max_attempts >= 0 =>
          /\ IterationEnds => attempts' = attempt_num
          /\ (pc = "loop" /\ pc' = "call") => attempt_num' <= max_attempts
          /\ (pc # "idle" /\ pc' = "idle") =>
                \/ \E k \in 1..Len(results') : results'[k].status = PASSED
                \/ attempts' = max_attempts ]_vars


\* C28: Passed is terminal.  Once the exercise holds a Passed result no
\* request is sent to the model for it, and results holds at most one Passed
\* result, which is its last element.
C28_PassedIsLast ==
    /\ is_completed(self) => pc # "call"
    /\ Cardinality(PassedResults) <= 1
    /\ \A k \in PassedResults : k = Len(results)


\* C29: whatever state the exercise was in when run_exercise was called,
\* run_exercise returns True exactly when the exercise is completed as it
\* returns.
C29_ReturnsCompletion ==
    [][ (pc # "idle" /\ pc' = "idle") =>
          (retval' = "true" <=> \E k \in 1..Len(results') : results'[k].status = PASSED) ]_vars


\* The loop body of run_benchmark counts the exercise run_exercise has just
\* returned from.
Counted == main_pc = "run_exercise" /\ main_pc' = "for"

\* C30: run_benchmark counts every exercise in exactly one of passed, failed
\* and error: passed when run_exercise returned True, otherwise error when
\* its last recorded result is Error, otherwise failed, which includes the
\* exercise without results; it adds the attempts of the exercise to
\* total_attempts.  So the three counters add up to the number of exercises
\* taken so far, which is total_exercises when the loop is over.
C30_Tally ==
    [][ /\ Counted =>
             /\ total_attempts' = total_attempts + attempts
             /\ <<passed', failed', errors'>> =
                   IF retval = "true" THEN <<passed + 1, failed, errors>>
                   ELSE IF results # <<>> /\ LastResult.status = ERROR
                   THEN <<passed, failed, errors + 1>>
                   ELSE <<passed, failed + 1, errors>>
        /\ main_pc' = "for" => passed' + failed' + errors' = index'
        /\ main_pc' = "exited" /\ main_pc = "for" =>
             passed + failed + errors = Len(exercises) ]_vars

\* Two exercises have been counted: one passed, and one ended on an Error
\* result after using its whole budget.
C30_Witness ==
    /\ main_pc = "for"
    /\ index = 2
    /\ passed = 1
    /\ errors = 1
    /\ failed = 0
    /\ total_attempts = 3

====
